---- MODULE Spec2Model ----
(***************************************************************************)
(* CloudHack outreach server: the agent task queue (AgentOrchestrator),    *)
(* the cron scheduler, the four agents (outreach, followup,                *)
(* response_classifier, stage_manager) and the HTTP routes that feed them. *)
(*                                                                         *)
(* Node.js runs one macrotask at a time.  `active` names the batch run     *)
(* (one call of processPendingTasks) that currently holds the thread; a    *)
(* run gives the thread up only at an `await` of a collaborator (text      *)
(* generation, e-mail delivery).  Timers and HTTP handlers run only while  *)
(* no run holds the thread (active = 0).                                   *)
(***************************************************************************)
EXTENDS Integers, Sequences, FiniteSets, TLC

VARIABLES tasks, prospects, seqs, campaigns, notifications, config,
          now, runs, active, ev, cap

vars == <<tasks, prospects, seqs, campaigns, notifications, config,
          now, runs, active, ev, cap>>

-----------------------------------------------------------------------------
(* Bounds of the model *)

MaxRuns == 2
MaxTime == 2
SlotsPerDay == 2

(* Program constants *)

MaxAttempts == 3
DefaultLimit == 10
OutOfOfficeDays == 5
RetentionDays == 30

NULL == "null"
NoTime == [at |-> 0, fmt |-> "null"]
NaN == -1

KnownStages ==
  {"new", "contacted", "responded", "meeting_scheduled", "proposal_sent", "won", "lost"}

stageOrder ==
  <<"new", "contacted", "responded", "meeting_scheduled", "proposal_sent", "won", "lost">>

RegisteredAgents == {"outreach", "followup", "response_classifier", "stage_manager"}

Classifications ==
  {"INTERESTED", "MEETING_REQUEST", "NOT_INTERESTED", "QUESTION", "OUT_OF_OFFICE", "UNCLEAR"}

Min(a, b) == IF a <= b THEN a ELSE b

-----------------------------------------------------------------------------
(* Timestamps.  A stored timestamp is text.  SQLite's datetime('now') and  *)
(* CURRENT_TIMESTAMP write 'YYYY-MM-DD HH:MM:SS' (fmt "sql"); JavaScript's *)
(* Date.toISOString() writes 'YYYY-MM-DDTHH:MM:SS.sssZ' (fmt "iso").  The  *)
(* queries compare the texts, byte by byte.  A time is a slot number;      *)
(* slot \div SlotsPerDay is its date and slot % SlotsPerDay its time of    *)
(* day.                                                                    *)

DateOf(t) == t \div SlotsPerDay
TimeOfDay(t) == t % SlotsPerDay

SqlText(t) == [at |-> t, fmt |-> "sql"]
IsoText(t) == [at |-> t, fmt |-> "iso"]

\* a <= b on the two texts: the date part first; on equal dates the
\* separator decides between the formats (' ' sorts before 'T').
TextLeq(a, b) ==
  \/ DateOf(a.at) < DateOf(b.at)
  \/ /\ DateOf(a.at) = DateOf(b.at)
     /\ \/ a.fmt = "sql" /\ b.fmt = "iso"
        \/ a.fmt = b.fmt /\ TimeOfDay(a.at) <= TimeOfDay(b.at)

-----------------------------------------------------------------------------
(* The store, as one record the handlers transform.  `ev` lists what the   *)
(* step being taken did (dispatches, stage writes, deliveries); it is      *)
(* history, not program state.                                             *)

S == [tasks |-> tasks, prospects |-> prospects, seqs |-> seqs,
      campaigns |-> campaigns, notifications |-> notifications,
      config |-> config, ev |-> <<>>]

\* cap bounds the tables of the model: a step that would grow a table past
\* its bound is not taken.  It never changes.
Bounded(s) ==
  /\ Len(s.tasks) <= cap.tasks
  /\ Len(s.campaigns) <= cap.campaigns
  /\ Len(s.notifications) <= cap.notifications

Commit(s) ==
  /\ Bounded(s)
  /\ cap' = cap
  /\ tasks' = s.tasks
  /\ prospects' = s.prospects
  /\ seqs' = s.seqs
  /\ campaigns' = s.campaigns
  /\ notifications' = s.notifications
  /\ config' = s.config
  /\ ev' = s.ev

Emit(s, e) == [s EXCEPT !.ev = Append(@, e)]

-----------------------------------------------------------------------------
(* AgentOrchestrator *)

\* queueTask: INSERT INTO agent_tasks ... status 'pending', attempts 0.
\* n_exec and n_throw count the calls of agent.execute and those that threw.
TaskRow(agentType, prospectId, payload, scheduledFor) ==
  [agent_type |-> agentType, prospect_id |-> prospectId, payload |-> payload,
   scheduled_for |-> scheduledFor, status |-> "pending", attempts |-> 0,
   result |-> NULL, error |-> NULL, completed_at |-> NoTime,
   n_exec |-> 0, n_throw |-> 0]

queueTask(s, agentType, prospectId, payload, scheduledFor) ==
  [s EXCEPT !.tasks = Append(@, TaskRow(agentType, prospectId, payload, scheduledFor))]

IsDue(task, t) ==
  \/ task.scheduled_for = NoTime
  \/ TextLeq(task.scheduled_for, SqlText(t))

RECURSIVE TakeDue(_, _, _, _)
TakeDue(ts, t, i, limit) ==
  IF i > Len(ts) \/ limit = 0 THEN <<>>
  ELSE IF ts[i].status = "pending" /\ IsDue(ts[i], t)
       THEN <<[id |-> i, attempts |-> ts[i].attempts]>> \o TakeDue(ts, t, i + 1, limit - 1)
       ELSE TakeDue(ts, t, i + 1, limit)

\* getPendingTasks without LIMIT.
getPendingTasks_NoLimit(s, t, limit) == TakeDue(s.tasks, t, 1, Len(s.tasks))

\* getPendingTasks: the rows as read at this moment, oldest first.
getPendingTasks(s, t, limit) == TakeDue(s.tasks, t, 1, limit)

\* updateTaskStatus: every call adds one to attempts; completed_at is
\* CURRENT_TIMESTAMP for completed and failed, NULL otherwise.  A row that
\* was deleted (status "deleted" marks where it was) is not there to update.
updateTaskStatus(s, taskId, status, result, error) ==
  IF s.tasks[taskId].status = "deleted" THEN s
  ELSE [s EXCEPT !.tasks[taskId].status = status,
                 !.tasks[taskId].result = result,
                 !.tasks[taskId].error = error,
                 !.tasks[taskId].completed_at =
                    IF status \in {"completed", "failed"} THEN SqlText(now) ELSE NoTime,
                 !.tasks[taskId].attempts = @ + 1]

\* processTask, the catch branch: the retry test reads the row as it was
\* when getPendingTasks returned it.
taskThrew(s, snap, error) ==
  LET s1 == [s EXCEPT !.tasks[snap.id].n_throw = @ + 1]
  IN IF snap.attempts < MaxAttempts
     THEN updateTaskStatus(s1, snap.id, "pending", NULL, error)
     ELSE updateTaskStatus(s1, snap.id, "failed", NULL, error)

\* processTask, after agent.execute returned.
taskReturned(s, snap, result) ==
  updateTaskStatus(s, snap.id, "completed", result, NULL)

-----------------------------------------------------------------------------
(* Configuration (agent_config) and the follow-up schedule *)

getConfig(s, key) == s.config[key]

\* follow_up_days is text; split(',') gives its tokens and parseInt a number
\* or NaN for each.  The value is kept as the sequence of parsed tokens.
\* `x || d` takes d when x is 0, NaN or undefined.
OrElse(x, d) == IF x = NaN \/ x = 0 THEN d ELSE x

At(days, i) == IF i >= 0 /\ i < Len(days) THEN days[i + 1] ELSE NaN

\* initializeFollowUpSequence / handleStageEffects: maxSteps, daysBetween.
maxStepsOf(days) == Len(days)
daysBetweenOf(days) == OrElse(At(days, 0), 3)

\* FollowupAgent.execute: daysArray[followUpNumber] || daysArray[last] || 7.
nextDaysOf(days, followUpNumber) ==
  OrElse(OrElse(At(days, followUpNumber), At(days, Len(days) - 1)), 7)

AddDays(t, d) == t + d * SlotsPerDay

-----------------------------------------------------------------------------
(* Rows *)

NoSequence ==
  [exists |-> FALSE, sequence_step |-> 0, max_steps |-> 0, is_paused |-> FALSE,
   next_send_at |-> NoTime]

\* What a step did: k is the kind ("dispatch", "stage", "campaign", "send",
\* "sent"), by the agent or route, auto the prospect's automation_enabled at
\* that moment, row_auto the automation_enabled of the row the acting execute
\* read at its start.
Event(s, k, p, task, by, from, to) ==
  LET auto == IF p \in DOMAIN s.prospects THEN s.prospects[p].automation_enabled ELSE FALSE
  IN [k |-> k, p |-> p, task |-> task, by |-> by, from |-> from, to |-> to,
      auto |-> auto, row_auto |-> auto]

\* UPDATE prospects SET stage = ? WHERE id = ?
setStage(s, p, stage, by) ==
  Emit([s EXCEPT !.prospects[p].stage = stage],
       Event(s, "stage", p, 0, by, s.prospects[p].stage, stage))

disableAutomation(s, p) == [s EXCEPT !.prospects[p].automation_enabled = FALSE]

\* UPDATE follow_up_sequences SET is_paused = 1 WHERE prospect_id = ?
pauseSequence(s, p) ==
  IF s.seqs[p].exists THEN [s EXCEPT !.seqs[p].is_paused = TRUE] ELSE s

\* A notifications row; created_at defaults to CURRENT_TIMESTAMP.
NotificationRow(type, p) == [type |-> type, prospect_id |-> p, created_at |-> SqlText(now)]

insertNotification(s, p, type) ==
  [s EXCEPT !.notifications = Append(@, NotificationRow(type, p))]

campaignCount(s, p) == Cardinality({i \in 1..Len(s.campaigns) : s.campaigns[i].prospect_id = p})

insertCampaign(s, p, by) ==
  Emit([s EXCEPT !.campaigns = Append(@, [prospect_id |-> p, status |-> "pending", by |-> by])],
       Event(s, "campaign", p, 0, by, NULL, NULL))

setCampaign(s, cid, status) == [s EXCEPT !.campaigns[cid].status = status]

-----------------------------------------------------------------------------
(* StageAgent (stage_manager) *)

validTransitions ==
  [new |-> {"contacted", "lost"},
   contacted |-> {"responded", "lost"},
   responded |-> {"meeting_scheduled", "lost"},
   meeting_scheduled |-> {"proposal_sent", "won", "lost"},
   proposal_sent |-> {"won", "lost"},
   won |-> {},
   lost |-> {"new"}]

\* Names every object literal inherits from Object.prototype: a lookup of
\* one of them finds a function or an object, not undefined.
InheritedKeys == {"constructor"}

\* this.validTransitions[fromStage]
lookupTransitions(fromStage) ==
  IF fromStage \in DOMAIN validTransitions
  THEN [kind |-> "array", items |-> validTransitions[fromStage]]
  ELSE IF fromStage \in InheritedKeys
       THEN [kind |-> "inherited", items |-> {}]
       ELSE [kind |-> "undefined", items |-> {}]

\* isValidTransition: (validTransitions[from] || []).includes(to).  A value
\* without an includes method makes the call throw a TypeError.
isValidTransition(fromStage, toStage) ==
  LET found == lookupTransitions(fromStage)
      validTargets == IF found.kind = "undefined" THEN [kind |-> "array", items |-> {}] ELSE found
  IN IF validTargets.kind # "array" THEN "throw"
     ELSE IF toStage \in validTargets.items THEN "true" ELSE "false"

\* transitionTo without its call of handleStageEffects.
handleStageEffects_None(s, p, newStage, t) == s

\* handleStageEffects
handleStageEffects(s, p, newStage, t) ==
  CASE newStage = "contacted" ->
         IF s.seqs[p].exists THEN s
         ELSE LET days == getConfig(s, "follow_up_days")
              IN [s EXCEPT !.seqs[p] =
                    [exists |-> TRUE, sequence_step |-> 0, max_steps |-> maxStepsOf(days),
                     is_paused |-> FALSE,
                     next_send_at |-> IsoText(AddDays(t, daysBetweenOf(days)))]]
    [] newStage = "responded" -> pauseSequence(s, p)
    [] newStage = "meeting_scheduled" ->
         disableAutomation(insertNotification(s, p, "meeting_scheduled"), p)
    [] newStage = "won" -> insertNotification(s, p, "deal_won")
    [] newStage = "lost" -> pauseSequence(disableAutomation(s, p), p)
    [] OTHER -> s

\* transitionTo with the UPDATE moved in front of the validation.
transitionTo_WritesFirst(s, p, row, newStage, t) ==
  LET valid == isValidTransition(row.stage, newStage)
      s1 == setStage(s, p, newStage, "stage_manager")
  IN CASE valid = "throw" -> [s |-> s, next |-> "throw", result |-> "TypeError"]
       [] valid = "false" -> [s |-> s1, next |-> "return", result |-> "invalid_transition"]
       [] OTHER ->
            [s |-> handleStageEffects(s1, p, newStage, t),
             next |-> "return", result |-> "transition_ok"]

\* transitionTo(prospect, newStage): prospect is the row execute read.
transitionTo(s, p, row, newStage, t) ==
  LET valid == isValidTransition(row.stage, newStage)
  IN CASE valid = "throw" -> [s |-> s, next |-> "throw", result |-> "TypeError"]
       [] valid = "false" -> [s |-> s, next |-> "return", result |-> "invalid_transition"]
       [] OTHER ->
            [s |-> handleStageEffects(setStage(s, p, newStage, "stage_manager"), p, newStage, t),
             next |-> "return", result |-> "transition_ok"]

\* StageAgent.handleClassification: forward moves and moves to lost only.
IndexOf(stage) ==
  IF \E i \in 1..Len(stageOrder) : stageOrder[i] = stage
  THEN (CHOOSE i \in 1..Len(stageOrder) : stageOrder[i] = stage) - 1
  ELSE -1

stageMap ==
  [INTERESTED |-> "responded", MEETING_REQUEST |-> "meeting_scheduled",
   NOT_INTERESTED |-> "lost", QUESTION |-> "responded"]

stageHandleClassification(s, p, row, classification, t) ==
  IF classification \notin DOMAIN stageMap
  THEN [s |-> s, next |-> "return", result |-> "no_stage_mapping"]
  ELSE LET suggestedStage == stageMap[classification]
       IN IF suggestedStage = "lost" \/ IndexOf(suggestedStage) > IndexOf(row.stage)
          THEN transitionTo(s, p, row, suggestedStage, t)
          ELSE [s |-> s, next |-> "return", result |-> "already_at_or_past"]

\* StageAgent.execute.  The only stage_manager tasks the server enqueues
\* carry suggestedStage (ResponseAgent, INTERESTED); a payload with neither
\* field reaches evaluateProspect, which no enqueue site produces.
stageExecute(s, p, payload, t) ==
  LET row == s.prospects[p]
  IN IF payload.suggestedStage # NULL THEN transitionTo(s, p, row, payload.suggestedStage, t)
     ELSE IF payload.classification # NULL
          THEN stageHandleClassification(s, p, row, payload.classification, t)
          ELSE [s |-> s, next |-> "return", result |-> "no_stage_change_needed"]

-----------------------------------------------------------------------------
(* ResponseAgent (response_classifier) *)

\* A task's payload: responseText (a reply text is present), suggestedStage and
\* classification (stage_manager), noAI (outreach: an existing templateId
\* with useAI === false).
EmptyPayload ==
  [responseText |-> FALSE, suggestedStage |-> NULL, classification |-> NULL, noAI |-> FALSE]
ReplyPayload == [EmptyPayload EXCEPT !.responseText = TRUE]

\* updateProspectStage(prospect, newStage): prospect is the row execute read
\* before the classifier was awaited.
updateProspectStage(s, p, row, newStage) ==
  IF row.stage = newStage THEN s ELSE setStage(s, p, newStage, "response_classifier")

\* INSERT INTO activities ... 'response_pending_review': the activity log is
\* kept as the record of the step that wrote it.
logPendingReview(s, p) ==
  Emit(s, Event(s, "activity", p, 0, "response_classifier", NULL, "response_pending_review"))

\* execute without the test of auto_classify: every reply goes to the classifier.
responseBegin_NoReviewGate(s, p, payload) ==
  IF ~payload.responseText THEN [s |-> s, next |-> "throw", result |-> "no_response_text"]
  ELSE [s |-> s, next |-> "classify", result |-> NULL]

\* execute up to `await llmService.classifyResponse`.
responseBegin(s, p, payload) ==
  IF ~payload.responseText THEN [s |-> s, next |-> "throw", result |-> "no_response_text"]
  ELSE IF getConfig(s, "auto_classify") # "true"
       THEN [s |-> logPendingReview(s, p), next |-> "return", result |-> "PENDING_REVIEW"]
       ELSE [s |-> s, next |-> "classify", result |-> NULL]

\* handleClassification
handleClassification(s, p, row, classification, t) ==
  CASE classification = "INTERESTED" ->
         queueTask(insertNotification(updateProspectStage(s, p, row, "responded"), p, "interested"),
                   "stage_manager", p,
                   [EmptyPayload EXCEPT !.suggestedStage = "responded",
                                        !.classification = classification],
                   NoTime)
    [] classification = "MEETING_REQUEST" ->
         pauseSequence(disableAutomation(
           insertNotification(updateProspectStage(s, p, row, "meeting_scheduled"),
                              p, "meeting_request"), p), p)
    [] classification = "NOT_INTERESTED" ->
         insertNotification(
           pauseSequence(disableAutomation(updateProspectStage(s, p, row, "lost"), p), p),
           p, "not_interested")
    [] classification = "QUESTION" ->
         pauseSequence(insertNotification(updateProspectStage(s, p, row, "responded"),
                                          p, "question"), p)
    [] classification = "OUT_OF_OFFICE" ->
         IF s.seqs[p].exists
         THEN [s EXCEPT !.seqs[p].next_send_at = IsoText(AddDays(t, OutOfOfficeDays)),
                        !.seqs[p].is_paused = FALSE]
         ELSE s
    [] OTHER ->
         pauseSequence(insertNotification(s, p, "review_needed"), p)

\* execute after the classifier answered.
responseResume(s, p, row, classification, t) ==
  [s |-> handleClassification(s, p, row, classification, t),
   next |-> "return", result |-> classification]

-----------------------------------------------------------------------------
(* OutreachAgent and FollowupAgent *)

\* sendEmail returning for a missing address without the UPDATE of the
\* campaign.
sendEmailBegin_LeavesPending(s, p, row, cid, by) ==
  IF ~row.email
  THEN [s |-> s, next |-> "return", result |-> "draft_no_email"]
  ELSE IF ~getConfig(s, "email_ready")
       THEN [s |-> setCampaign(s, cid, "draft"), next |-> "return", result |-> "draft_not_ready"]
       ELSE [s |-> Emit(s, Event(s, "send", p, 0, by, NULL, NULL)),
             next |-> "send", result |-> NULL]

\* sendEmail up to `await emailService.send`: prospect is the row execute
\* read at its start.
sendEmailBegin(s, p, row, cid, by) ==
  IF ~row.email
  THEN [s |-> setCampaign(s, cid, "draft"), next |-> "return", result |-> "draft_no_email"]
  ELSE IF ~getConfig(s, "email_ready")
       THEN [s |-> setCampaign(s, cid, "draft"), next |-> "return", result |-> "draft_not_ready"]
       ELSE [s |-> Emit(s, Event(s, "send", p, 0, by, NULL, NULL)),
             next |-> "send", result |-> NULL]

\* execute from the campaign INSERT to the await inside sendEmail.
composeAndSend(s, p, row, by) ==
  LET s1 == insertCampaign(s, p, by)
  IN sendEmailBegin(s1, p, row, Len(s1.campaigns), by)

\* OutreachAgent.execute without the test of prospect.automation_enabled.
outreachBegin_Unchecked(s, p, payload) ==
  LET row == s.prospects[p]
  IN IF getConfig(s, "auto_outreach") # "true"
     THEN [s |-> s, next |-> "return", result |-> "skipped_global"]
     ELSE IF campaignCount(s, p) > 0
          THEN [s |-> s, next |-> "return", result |-> "skipped_has_campaigns"]
          ELSE IF payload.noAI
               THEN composeAndSend(s, p, row, "outreach")
               ELSE [s |-> s, next |-> "gen", result |-> NULL]

\* OutreachAgent.execute up to its first await.
outreachBegin(s, p, payload) ==
  LET row == s.prospects[p]
  IN IF ~row.automation_enabled
     THEN [s |-> s, next |-> "return", result |-> "skipped_automation"]
     ELSE IF getConfig(s, "auto_outreach") # "true"
          THEN [s |-> s, next |-> "return", result |-> "skipped_global"]
          ELSE IF campaignCount(s, p) > 0
               THEN [s |-> s, next |-> "return", result |-> "skipped_has_campaigns"]
               ELSE IF payload.noAI
                    THEN composeAndSend(s, p, row, "outreach")
                    ELSE [s |-> s, next |-> "gen", result |-> NULL]

\* initializeFollowUpSequence: INSERT OR REPLACE, step 0, not paused.
initializeFollowUpSequence(s, p, t) ==
  LET days == getConfig(s, "follow_up_days")
  IN [s EXCEPT !.seqs[p] =
        [exists |-> TRUE, sequence_step |-> 0, max_steps |-> maxStepsOf(days),
         is_paused |-> FALSE, next_send_at |-> IsoText(AddDays(t, daysBetweenOf(days)))]]

\* OutreachAgent after the send, without initializeFollowUpSequence.
outreachAfterSend_NoSequence(s, p, row, cid, ok, t) ==
  IF ~ok
  THEN [s |-> setCampaign(s, cid, "failed"), next |-> "return", result |-> "send_failed"]
  ELSE LET s1 == Emit(setCampaign(s, cid, "sent"), Event(s, "sent", p, 0, "outreach", NULL, NULL))
           s2 == IF row.stage = "new" THEN setStage(s1, p, "contacted", "outreach") ELSE s1
       IN [s |-> s2, next |-> "return", result |-> "sent"]

\* OutreachAgent: sendEmail after emailService.send answered, then the rest
\* of execute.
outreachAfterSend(s, p, row, cid, ok, t) ==
  IF ~ok
  THEN [s |-> setCampaign(s, cid, "failed"), next |-> "return", result |-> "send_failed"]
  ELSE LET s1 == Emit(setCampaign(s, cid, "sent"), Event(s, "sent", p, 0, "outreach", NULL, NULL))
           s2 == IF row.stage = "new" THEN setStage(s1, p, "contacted", "outreach") ELSE s1
       IN [s |-> initializeFollowUpSequence(s2, p, t), next |-> "return", result |-> "sent"]

\* FollowupAgent.execute without the max-follow-ups branch.
followupBegin_NoMaxBranch(s, p) ==
  LET row == s.prospects[p]
      sequence == s.seqs[p]
  IN IF ~row.automation_enabled
     THEN [s |-> s, next |-> "return", result |-> "skipped_automation"]
     ELSE IF row.stage # "contacted"
          THEN [s |-> s, next |-> "return", result |-> "skipped_stage"]
          ELSE IF ~sequence.exists
               THEN [s |-> s, next |-> "return", result |-> "skipped_no_sequence"]
               ELSE IF sequence.is_paused
                    THEN [s |-> s, next |-> "return", result |-> "skipped_paused"]
                    ELSE [s |-> s, next |-> "gen", result |-> NULL]

\* FollowupAgent.execute up to its first await.
followupBegin(s, p) ==
  LET row == s.prospects[p]
      sequence == s.seqs[p]
  IN IF ~row.automation_enabled
     THEN [s |-> s, next |-> "return", result |-> "skipped_automation"]
     ELSE IF row.stage # "contacted"
          THEN [s |-> s, next |-> "return", result |-> "skipped_stage"]
          ELSE IF ~sequence.exists
               THEN [s |-> s, next |-> "return", result |-> "skipped_no_sequence"]
               ELSE IF sequence.is_paused
                    THEN [s |-> s, next |-> "return", result |-> "skipped_paused"]
                    ELSE IF sequence.sequence_step >= sequence.max_steps
                         THEN [s |-> setStage(s, p, "lost", "followup"),
                               next |-> "return", result |-> "moved_to_lost"]
                         ELSE [s |-> s, next |-> "gen", result |-> NULL]

\* FollowupAgent: sendEmail after emailService.send answered, then the
\* sequence update.  followUpNumber was computed before the awaits.
followupAfterSend(s, p, followUpNumber, cid, ok, t) ==
  IF ~ok
  THEN [s |-> setCampaign(s, cid, "failed"), next |-> "return", result |-> "send_failed"]
  ELSE LET s1 == Emit(setCampaign(s, cid, "sent"), Event(s, "sent", p, 0, "followup", NULL, NULL))
           days == getConfig(s, "follow_up_days")
       IN [s |-> IF s1.seqs[p].exists
                 THEN [s1 EXCEPT !.seqs[p].sequence_step = followUpNumber,
                                 !.seqs[p].next_send_at =
                                    IsoText(AddDays(t, nextDaysOf(days, followUpNumber)))]
                 ELSE s1,
           next |-> "return", result |-> "sent"]

\* FollowupAgent.getDueFollowUps
getDueFollowUps(s, t) ==
  {p \in DOMAIN s.prospects :
     /\ s.seqs[p].exists
     /\ ~s.seqs[p].is_paused
     /\ TextLeq(s.seqs[p].next_send_at, SqlText(t))
     /\ s.seqs[p].sequence_step < s.seqs[p].max_steps
     /\ s.prospects[p].automation_enabled
     /\ s.prospects[p].stage = "contacted"}

-----------------------------------------------------------------------------
(* processPendingTasks: one run per call.  A run holds the rows that       *)
(* getPendingTasks returned (snap), its place in the for loop (idx), where *)
(* it is suspended (pc: "gen" text generation, "send" e-mail delivery,     *)
(* "classify" reply classification; "loop" while it holds the thread) and  *)
(* the locals of the suspended execute (loc).                              *)

NoLoc ==
  [stage |-> NULL, email |-> FALSE, automation_enabled |-> FALSE, followUpNumber |-> 0, cid |-> 0]
FreeRun == [pc |-> "free", snap |-> <<>>, idx |-> 0, loc |-> NoLoc]
Awaits == {"gen", "send", "classify"}

\* The events of the step, marked with what the execute that made them read
\* at its start.
Stamp(s, loc) ==
  LET made == s.ev
  IN [s EXCEPT !.ev = [i \in 1..Len(made) |->
                         [made[i] EXCEPT !.row_auto = loc.automation_enabled]]]

\* The for loop moves on after a task: to the next row, or out of the call.
\* The loop of a call that asks getPendingTasks again when its list is used up.
LoopOn_Drains(r) ==
  IF runs[r].idx < Len(runs[r].snap)
  THEN /\ runs' = [runs EXCEPT ![r].pc = "loop", ![r].idx = @ + 1, ![r].loc = NoLoc]
       /\ active' = r
  ELSE LET more == getPendingTasks([tasks |-> tasks'], now, DefaultLimit)
       IN IF more = <<>>
          THEN /\ runs' = [runs EXCEPT ![r] = FreeRun]
               /\ active' = 0
          ELSE /\ runs' = [runs EXCEPT ![r].pc = "loop", ![r].snap = @ \o more,
                                       ![r].idx = @ + 1, ![r].loc = NoLoc]
               /\ active' = r

LoopOn(r) ==
  IF runs[r].idx < Len(runs[r].snap)
  THEN /\ runs' = [runs EXCEPT ![r].pc = "loop", ![r].idx = @ + 1, ![r].loc = NoLoc]
       /\ active' = r
  ELSE /\ runs' = [runs EXCEPT ![r] = FreeRun]
       /\ active' = 0

Suspend(r, pc, loc) ==
  /\ runs' = [runs EXCEPT ![r].pc = pc, ![r].loc = loc]
  /\ active' = 0

\* What processTask does with the outcome of a piece of agent.execute.
Settle(r, snap, out, loc) ==
  IF out.next \in Awaits
  THEN Commit(Stamp(out.s, loc)) /\ Suspend(r, out.next, loc)
  ELSE LET s2 == IF out.next = "return"
                 THEN taskReturned(out.s, snap, out.result)
                 ELSE taskThrew(out.s, snap, out.result)
       IN Commit(Stamp(s2, loc)) /\ LoopOn(r)

\* agent.execute up to its first await (or its return).
executeBegin(s, task, t) ==
  CASE task.agent_type = "outreach" -> outreachBegin(s, task.prospect_id, task.payload)
    [] task.agent_type = "followup" -> followupBegin(s, task.prospect_id)
    [] task.agent_type = "response_classifier" -> responseBegin(s, task.prospect_id, task.payload)
    [] OTHER -> stageExecute(s, task.prospect_id, task.payload, t)

\* The locals execute keeps across its awaits.
localsOf(s, task) ==
  LET p == task.prospect_id
  IN [stage |-> s.prospects[p].stage, email |-> s.prospects[p].email,
      automation_enabled |-> s.prospects[p].automation_enabled,
      followUpNumber |-> s.seqs[p].sequence_step + 1, cid |-> 0]

\* processTask(task) for the next row of the snapshot.
processTask(r) ==
  LET snap == runs[r].snap[runs[r].idx]
      task == tasks[snap.id]
      s0 == Emit(S, Event(S, "dispatch", task.prospect_id, snap.id, task.agent_type,
                          task.status, IF IsDue(task, now) THEN "due" ELSE "not_due"))
  IN IF task.agent_type \notin RegisteredAgents
     THEN /\ Commit(updateTaskStatus(s0, snap.id, "failed", NULL, "no_agent"))
          /\ LoopOn(r)
     ELSE LET s1 == [updateTaskStatus(s0, snap.id, "processing", NULL, NULL)
                       EXCEPT !.tasks[snap.id].n_exec = @ + 1]
              out == executeBegin(s1, task, now)
          IN Settle(r, snap, out,
                    [localsOf(s1, task) EXCEPT
                       !.cid = IF out.next = "send" THEN Len(out.s.campaigns) ELSE 0])

Dispatch(r) ==
  /\ active = r
  /\ runs[r].pc = "loop"
  /\ processTask(r)
  /\ UNCHANGED now

\* Text generation answers (generateOutreachEmail / generateFollowUp and
\* generateSubjectLine; nothing is written between the two awaits).
GenAnswers(r, ok) ==
  /\ active = 0
  /\ runs[r].pc = "gen"
  /\ LET snap == runs[r].snap[runs[r].idx]
         task == tasks[snap.id]
         loc == runs[r].loc
         out == IF ok THEN composeAndSend(S, task.prospect_id, loc, task.agent_type)
                ELSE [s |-> S, next |-> "throw", result |-> "provider_error"]
     IN Settle(r, snap, out, [loc EXCEPT !.cid = Len(out.s.campaigns)])
  /\ UNCHANGED now

\* emailService.send answers.
SendAnswers(r, ok) ==
  /\ active = 0
  /\ runs[r].pc = "send"
  /\ LET snap == runs[r].snap[runs[r].idx]
         task == tasks[snap.id]
         loc == runs[r].loc
         out == IF task.agent_type = "outreach"
                THEN outreachAfterSend(S, task.prospect_id, loc, loc.cid, ok, now)
                ELSE followupAfterSend(S, task.prospect_id, loc.followUpNumber, loc.cid, ok, now)
     IN Settle(r, snap, out, loc)
  /\ UNCHANGED now

\* llmService.classifyResponse answers with a classification, or throws.
ClassifierAnswers(r, answer) ==
  /\ active = 0
  /\ runs[r].pc = "classify"
  /\ LET snap == runs[r].snap[runs[r].idx]
         task == tasks[snap.id]
         out == IF answer = "throw"
                THEN [s |-> S, next |-> "throw", result |-> "provider_error"]
                ELSE responseResume(S, task.prospect_id, runs[r].loc, answer, now)
     IN Settle(r, snap, out, runs[r].loc)
  /\ UNCHANGED now

\* processPendingTasks is called: getPendingTasks, then the loop.
startRun(s) ==
  LET snap == getPendingTasks(s, now, DefaultLimit)
  IN /\ Commit(s)
     /\ IF snap = <<>>
        THEN UNCHANGED <<runs, active>>
        ELSE \E r \in 1..MaxRuns :
               /\ runs[r].pc = "free"
               /\ \A q \in 1..(r - 1) : runs[q].pc # "free"
               /\ runs' = [runs EXCEPT ![r] = [pc |-> "loop", snap |-> snap, idx |-> 1,
                                               loc |-> NoLoc]]
               /\ active' = r

-----------------------------------------------------------------------------
(* The scheduler's jobs and the HTTP routes.  Each runs as one macrotask,  *)
(* while no run holds the thread.                                          *)

\* Scheduler job 'Process Agent Tasks' (every minute).
Tick ==
  /\ active = 0
  /\ startRun(S)
  /\ UNCHANGED now

\* POST /agents/process -> scheduler.processNow().
ProcessNow ==
  /\ active = 0
  /\ startRun(S)
  /\ UNCHANGED now

\* POST /agents/trigger/{outreach,followup,classify}/:prospectId:
\* triggerAgent (queueTask), then processNow.
Trigger(agentType, p, payload) ==
  /\ active = 0
  /\ startRun(queueTask(S, agentType, p, payload, NoTime))
  /\ UNCHANGED now

RECURSIVE queueFollowUps(_, _)
queueFollowUps(s, due) ==
  IF due = {} THEN s
  ELSE LET p == CHOOSE q \in due : \A o \in due : q <= o
       IN queueFollowUps(queueTask(s, "followup", p, EmptyPayload, NoTime), due \ {p})

\* Scheduler job 'Follow-up Check' (every 5 minutes).
FollowUpCheck ==
  /\ active = 0
  /\ Commit(queueFollowUps(S, getDueFollowUps(S, now)))
  /\ UNCHANGED <<now, runs, active>>

\* The inbound webhook without its test of the stage: every reply moves the
\* prospect to responded.
InboundReply_AnyStage(p, hasText) ==
  /\ active = 0
  /\ LET s1 == setStage(S, p, "responded", "inbound_webhook")
         s2 == queueTask(pauseSequence(s1, p), "response_classifier", p,
                         [EmptyPayload EXCEPT !.responseText = hasText], NoTime)
     IN Commit(s2)
  /\ UNCHANGED <<now, runs, active>>

\* POST /webhooks/sendgrid/inbound: a reply from prospect p; hasText tells
\* whether the message carries a text or html body.
InboundReply(p, hasText) ==
  /\ active = 0
  /\ LET s1 == IF prospects[p].stage \in {"new", "contacted"}
               THEN setStage(S, p, "responded", "inbound_webhook") ELSE S
         s2 == queueTask(pauseSequence(s1, p), "response_classifier", p,
                         [EmptyPayload EXCEPT !.responseText = hasText], NoTime)
     IN Commit(s2)
  /\ UNCHANGED <<now, runs, active>>

\* PUT /agents/prospect/:prospectId/automation
ToggleAutomation(p, enabled) ==
  /\ active = 0
  /\ prospects[p].automation_enabled # enabled
  /\ LET s1 == [S EXCEPT !.prospects[p].automation_enabled = enabled]
     IN Commit(IF enabled THEN s1 ELSE pauseSequence(s1, p))
  /\ UNCHANGED <<now, runs, active>>

\* PUT /agents/config
SetConfig(key, value) ==
  /\ active = 0
  /\ config[key] # value
  /\ Commit([S EXCEPT !.config[key] = value])
  /\ UNCHANGED <<now, runs, active>>

\* PATCH /prospects/:id/stage: the operator writes any stage.
PatchStage(p, stage) ==
  /\ active = 0
  /\ prospects[p].stage # stage
  /\ Commit(setStage(S, p, stage, "operator"))
  /\ UNCHANGED <<now, runs, active>>

\* orchestrator.queueTask called with a scheduledFor.
Enqueue(agentType, p, payload, scheduledFor) ==
  /\ active = 0
  /\ Commit(queueTask(S, agentType, p, payload, scheduledFor))
  /\ UNCHANGED <<now, runs, active>>

\* The clock moves on by one slot.
AdvanceTime ==
  /\ active = 0
  /\ now < MaxTime
  /\ now' = now + 1
  /\ Commit(S)
  /\ UNCHANGED <<runs, active>>

-----------------------------------------------------------------------------
(* The server after start-up *)

Prospects == {1}

\* follow_up_days as seeded ('3,7,14') and as an operator may set it ('7').
SeededDays == <<3, 7, 14>>
DaysChoices == {<<7>>, SeededDays}

DefaultConfig ==
  [follow_up_days |-> SeededDays, auto_outreach |-> "true", auto_classify |-> "true",
   email_ready |-> TRUE]

NewProspect == [stage |-> "new", automation_enabled |-> TRUE, email |-> TRUE]

FreshStart ==
  /\ tasks = <<>>
  /\ prospects = [p \in Prospects |-> NewProspect]
  /\ seqs = [p \in Prospects |-> NoSequence]
  /\ campaigns = <<>>
  /\ notifications = <<>>
  /\ config = DefaultConfig
  /\ now = 0
  /\ runs = [r \in 1..MaxRuns |-> FreeRun]
  /\ active = 0
  /\ ev = <<>>

Caps(nTasks, nCampaigns, nNotifications) ==
  [tasks |-> nTasks, campaigns |-> nCampaigns, notifications |-> nNotifications]

-----------------------------------------------------------------------------
(* The task queue under overlapping calls of processPendingTasks: replies  *)
(* arrive, are queued for the classifier and drained by the cron job and   *)
(* by the manual routes.                                                   *)

QueueTasks == 2
QueueNotifications == 1

NextQueue ==
  \/ \E r \in 1..MaxRuns : Dispatch(r)
  \/ \E r \in 1..MaxRuns, answer \in Classifications \cup {"throw"} : ClassifierAnswers(r, answer)
  \/ Tick
  \/ ProcessNow
  \/ \E p \in Prospects : Trigger("response_classifier", p, ReplyPayload)
  \/ \E p \in Prospects, hasText \in BOOLEAN : InboundReply(p, hasText)

InitQueue == FreshStart /\ cap = Caps(QueueTasks, 0, QueueNotifications)

SpecQueue == InitQueue /\ [][NextQueue]_vars

\* C1: for every task whose dispatches to a registered agent all threw (N of
\* them, none in progress), the stored attempts is min(N, 3), and the task is
\* failed exactly when attempts has reached 3.
C1_AttemptsCountFailures ==
  \A i \in 1..Len(tasks) :
    ( /\ tasks[i].agent_type \in RegisteredAgents
      /\ tasks[i].status # "processing"
      /\ tasks[i].n_exec = tasks[i].n_throw )
    => /\ tasks[i].attempts = Min(tasks[i].n_throw, MaxAttempts)
       /\ (tasks[i].status = "failed") <=> (tasks[i].attempts >= MaxAttempts)

\* C2: at most one agent execution is in progress (suspended at an await or
\* holding the thread), and no two batch runs are executing the same task.
InProgress(r) == runs[r].pc \in Awaits

C2_OneExecutionInProgress ==
  \A q, r \in 1..MaxRuns : (InProgress(q) /\ InProgress(r)) => q = r

\* C9: whenever processTask is handed a task, the task's stored status is
\* pending and its scheduled_for is null or not after now, at that moment.
C9_DrainedOnlyWhenPendingAndDue ==
  \A i \in 1..Len(ev) :
    ev[i].k = "dispatch" => (ev[i].from = "pending" /\ ev[i].to = "due")


\* C18: a task whose status is completed or failed keeps that status and is
\* not handed to an agent again.
C18_FinishedTasksStayFinished ==
  [][\A i \in 1..Len(tasks) :
       tasks[i].status \in {"completed", "failed"}
       => /\ tasks'[i].status = tasks[i].status
          /\ tasks'[i].n_exec = tasks[i].n_exec]_vars

\* C4: every stage write made by an agent goes from a stage s to a stage in
\* validTransitions[s]; no agent writes a stage over won.
AgentNames == RegisteredAgents

C4_AgentStageWritesFollowTable ==
  \A i \in 1..Len(ev) :
    (ev[i].k = "stage" /\ ev[i].by \in AgentNames)
    => /\ ev[i].from \in DOMAIN validTransitions
       /\ ev[i].to \in validTransitions[ev[i].from]

-----------------------------------------------------------------------------
(* Outreach and follow-up on a database the server finds at start-up: a    *)
(* new prospect, or a contacted one whose outreach and first follow-ups    *)
(* were sent (one campaign each), the sequence due.  The operator triggers *)
(* the agents and switches the prospect's automation on and off while the  *)
(* cron jobs run.                                                          *)

AgentsTasks == 1
AgentsCampaigns == 3

SentCampaigns(p, step) ==
  [i \in 1..(step + 1) |->
     [prospect_id |-> p, status |-> "sent", by |-> IF i = 1 THEN "outreach" ELSE "followup"]]

\* The prospect was contacted `step` follow-ups ago under follow_up_days = days.
ContactedStart(p, step, days) ==
  /\ tasks = <<>>
  /\ prospects = [q \in Prospects |-> [NewProspect EXCEPT !.stage = "contacted"]]
  /\ seqs = [q \in Prospects |->
               [exists |-> TRUE, sequence_step |-> step, max_steps |-> maxStepsOf(days),
                is_paused |-> FALSE, next_send_at |-> IsoText(0)]]
  /\ campaigns = SentCampaigns(p, step)
  /\ notifications = <<>>
  /\ config = [DefaultConfig EXCEPT !.follow_up_days = days]
  /\ runs = [r \in 1..MaxRuns |-> FreeRun]
  /\ active = 0
  /\ ev = <<>>

InitAgents ==
  /\ cap = Caps(AgentsTasks, AgentsCampaigns, 0)
  /\ \/ FreshStart /\ now = 0
     \/ /\ now = SlotsPerDay
        /\ \E p \in Prospects, step \in 0..maxStepsOf(<<7>>) : ContactedStart(p, step, <<7>>)

NextAgents ==
  \/ \E r \in 1..MaxRuns : Dispatch(r)
  \/ \E r \in 1..MaxRuns, ok \in BOOLEAN : GenAnswers(r, ok)
  \/ \E r \in 1..MaxRuns, ok \in BOOLEAN : SendAnswers(r, ok)
  \/ Tick
  \/ FollowUpCheck
  \/ \E p \in Prospects, a \in {"outreach", "followup"} : Trigger(a, p, EmptyPayload)
  \/ \E p \in Prospects, enabled \in BOOLEAN : ToggleAutomation(p, enabled)

SpecAgents == InitAgents /\ [][NextAgents]_vars

Mailers == {"outreach", "followup"}

\* C3 (as the code has it): an Outreach or FollowUp execution creates a
\* campaign, sends an e-mail or writes the stage only if automation_enabled
\* was true in the prospect row it read at its start.
C3_AutomationCheckedAtStart ==
  \A i \in 1..Len(ev) :
    (ev[i].by \in Mailers /\ ev[i].k \in {"campaign", "send", "sent", "stage"})
    => ev[i].row_auto

\* C3 (as stated): an Outreach or FollowUp execution sends an e-mail or writes
\* the stage only while automation_enabled is true at that moment.
C3_AutomationTrueWhenActing ==
  \A i \in 1..Len(ev) :
    (ev[i].by \in Mailers /\ ev[i].k \in {"send", "sent", "stage"})
    => ev[i].auto

\* An execution that began with automation on hands a message to the e-mail
\* service after automation was switched off.
C3_SendsAfterAutomationCleared ==
  \E i \in 1..Len(ev) :
    ev[i].by \in Mailers /\ ev[i].k = "send" /\ ev[i].row_auto /\ ~ev[i].auto

\* The row processTask is about to hand to an agent in run r.
NextTask(r) == tasks[runs[r].snap[runs[r].idx].id]

\* Run r is about to execute a follow-up for a prospect with automation on,
\* in stage contacted, with an unpaused sequence at or past its last step.
FollowUpAtMax(r) ==
  /\ active = r
  /\ runs[r].pc = "loop"
  /\ NextTask(r).agent_type = "followup"
  /\ LET p == NextTask(r).prospect_id
     IN /\ prospects[p].automation_enabled
        /\ prospects[p].stage = "contacted"
        /\ seqs[p].exists
        /\ ~seqs[p].is_paused
        /\ seqs[p].sequence_step >= seqs[p].max_steps

\* C8: such an execution sends no e-mail, creates no campaign and leaves the
\* prospect in stage lost.
C8_MaxStepsMovesToLost ==
  [][\A r \in 1..MaxRuns :
       FollowUpAtMax(r) =>
         /\ campaigns' = campaigns
         /\ prospects'[NextTask(r).prospect_id].stage = "lost"
         /\ \A i \in 1..Len(ev') : ev'[i].k \notin {"campaign", "send", "sent"}
         /\ runs'[r].pc \notin Awaits]_vars

\* A follow-up ran on a sequence at its last step and moved the prospect.
C8_MovedToLost ==
  \E i \in 1..Len(ev) :
    ev[i].k = "stage" /\ ev[i].by = "followup" /\ ev[i].to = "lost"

\* Run r is in an outreach execution that began on a prospect in stage new
\* with an e-mail address and automation on (and, having passed the test of
\* existing campaigns, with no campaign), and waits for the e-mail service.
OutreachAwaitsSend(r) ==
  /\ runs[r].pc = "send"
  /\ NextTask(r).agent_type = "outreach"
  /\ runs[r].loc.stage = "new"
  /\ runs[r].loc.email
  /\ runs[r].loc.automation_enabled

\* C15: when the delivery of such an execution succeeds, its campaign is
\* sent, the prospect is in stage contacted and the follow-up sequence
\* exists with sequence_step 0 and is not paused.
C15_FirstOutreachContacts ==
  [][\A r \in 1..MaxRuns :
       LET id == runs[r].snap[runs[r].idx].id
           p == tasks[id].prospect_id
       IN (OutreachAwaitsSend(r) /\ runs'[r].pc # "send" /\ tasks'[id].result = "sent")
          => /\ campaigns'[runs[r].loc.cid].status = "sent"
             /\ campaigns'[runs[r].loc.cid].prospect_id = p
             /\ prospects'[p].stage = "contacted"
             /\ seqs'[p].exists
             /\ seqs'[p].sequence_step = 0
             /\ ~seqs'[p].is_paused]_vars

\* The first outreach was delivered: one campaign, sent, the prospect
\* contacted, the sequence at step 0.
C15_OutreachDelivered ==
  /\ \E i \in 1..Len(ev) : ev[i].k = "sent" /\ ev[i].by = "outreach"
  /\ \E i \in 1..Len(ev) : ev[i].k = "stage" /\ ev[i].from = "new" /\ ev[i].to = "contacted"
  /\ Len(campaigns) = 1 /\ campaigns[1].status = "sent"
  /\ \A p \in Prospects : seqs[p].exists /\ seqs[p].sequence_step = 0 /\ ~seqs[p].is_paused

-----------------------------------------------------------------------------
(* transitionTo on every pair of stage values.  prospects.stage is free    *)
(* text (PATCH /prospects/:id/stage stores what it is sent), so the row    *)
(* may hold a value outside the seven stages; the target comes from the    *)
(* task's payload.                                                         *)

StageValues == KnownStages \cup {"archived", "constructor"}

InitTransition ==
  /\ cap = Caps(1, 0, 1)
  /\ \E from \in StageValues, to \in StageValues, p \in Prospects :
       /\ tasks = <<TaskRow("stage_manager", p, [EmptyPayload EXCEPT !.suggestedStage = to], NoTime)>>
       /\ prospects = [q \in Prospects |-> [NewProspect EXCEPT !.stage = from]]
  /\ seqs = [p \in Prospects |-> NoSequence]
  /\ campaigns = <<>>
  /\ notifications = <<>>
  /\ config = DefaultConfig
  /\ now = 0
  /\ runs = [r \in 1..MaxRuns |-> FreeRun]
  /\ active = 0
  /\ ev = <<>>

NextTransition ==
  \/ Tick
  \/ \E r \in 1..MaxRuns : Dispatch(r)

SpecTransition == InitTransition /\ [][NextTransition]_vars

\* Run r is about to execute a stage_manager task that names a target stage.
TransitionDue(r) ==
  /\ active = r
  /\ runs[r].pc = "loop"
  /\ NextTask(r).agent_type = "stage_manager"
  /\ NextTask(r).payload.suggestedStage # NULL

\* C5: transitionTo from stage `from` to stage `to` reports success and writes
\* stage = to exactly when `to` is in validTransitions[from]; otherwise it
\* reports a failure, writes nothing, and does not throw.
C5_TransitionSucceedsIffInTable ==
  [][\A r \in 1..MaxRuns :
       TransitionDue(r) =>
         LET id == runs[r].snap[runs[r].idx].id
             p == tasks[id].prospect_id
             from == prospects[p].stage
             to == tasks[id].payload.suggestedStage
             inTable == from \in DOMAIN validTransitions /\ to \in validTransitions[from]
         IN /\ tasks'[id].n_throw = tasks[id].n_throw
            /\ inTable => (tasks'[id].result = "transition_ok" /\ prospects'[p].stage = to)
            /\ ~inTable => (tasks'[id].result = "invalid_transition"
                            /\ prospects'[p].stage = from)]_vars

\* C12: when transitionTo rejects the target, the task reports the failure
\* and the step leaves the prospect (stage, automation_enabled), the
\* follow-up sequence and the notifications as they were and logs no stage
\* change.
C12_RejectedTransitionChangesNothing ==
  [][\A r \in 1..MaxRuns :
       LET id == runs[r].snap[runs[r].idx].id
       IN (TransitionDue(r) /\ tasks'[id].result = "invalid_transition")
          => /\ tasks'[id].status = "completed"
             /\ prospects' = prospects
             /\ seqs' = seqs
             /\ notifications' = notifications
             /\ \A i \in 1..Len(ev') : ev'[i].k # "stage"]_vars

\* A won prospect asked to move to contacted: rejected, still won.
C12_WonToContactedRejected ==
  \E i \in 1..Len(tasks) :
    /\ tasks[i].payload.suggestedStage = "contacted"
    /\ tasks[i].result = "invalid_transition"
    /\ prospects[tasks[i].prospect_id].stage = "won"
    /\ prospects[tasks[i].prospect_id].automation_enabled

-----------------------------------------------------------------------------
(* The follow-up sequence while the operator triggers outreach and         *)
(* follow-ups by hand and edits follow_up_days.                            *)

SeqTasks == 4
SeqCampaigns == 4

InitSeq == FreshStart /\ now = 0 /\ cap = Caps(SeqTasks, SeqCampaigns, 0)

NextSeq ==
  \/ \E r \in 1..MaxRuns : Dispatch(r)
  \/ \E r \in 1..MaxRuns, ok \in BOOLEAN : GenAnswers(r, ok)
  \/ \E r \in 1..MaxRuns, ok \in BOOLEAN : SendAnswers(r, ok)
  \/ \E p \in Prospects, a \in {"outreach", "followup"} : Trigger(a, p, EmptyPayload)
  \/ \E days \in DaysChoices : SetConfig("follow_up_days", days)

SpecSeq == InitSeq /\ [][NextSeq]_vars

\* C6: every follow-up sequence has sequence_step <= max_steps.
C6_StepWithinMax ==
  \A p \in Prospects : seqs[p].exists => seqs[p].sequence_step <= seqs[p].max_steps

\* The campaigns agent `by` created for prospect p that were delivered.
SentBy(by, p) ==
  {i \in 1..Len(campaigns) :
     campaigns[i].prospect_id = p /\ campaigns[i].by = by /\ campaigns[i].status = "sent"}

\* C16: the follow-up e-mails sent to a prospect never outnumber the
\* max_steps of its sequence.
C16_FollowUpsWithinMax ==
  \A p \in Prospects :
    seqs[p].exists => Cardinality(SentBy("followup", p)) <= seqs[p].max_steps

\* C17: over all outreach executions for a prospect, Outreach creates at most
\* one campaign and sends at most one initial e-mail.
C17_OneInitialEmail ==
  \A p \in Prospects :
    /\ Cardinality({i \in 1..Len(campaigns) :
                      campaigns[i].prospect_id = p /\ campaigns[i].by = "outreach"}) <= 1
    /\ Cardinality(SentBy("outreach", p)) <= 1

-----------------------------------------------------------------------------
(* The cron jobs alone: no reply arrives, nobody triggers an agent or      *)
(* touches the automation switch.  The jobs fire on their schedule, the    *)
(* loop of a run goes on when it holds the thread, the collaborators       *)
(* answer, and time passes.                                                *)

FairTasks == 2
FairCampaigns == 2

InitFair ==
  /\ cap = Caps(FairTasks, FairCampaigns, 0)
  /\ now = 0
  /\ \E p \in Prospects, step \in 0..maxStepsOf(<<7>>) : ContactedStart(p, step, <<7>>)

NextFair ==
  \/ Tick
  \/ FollowUpCheck
  \/ \E r \in 1..MaxRuns : Dispatch(r)
  \/ \E r \in 1..MaxRuns, ok \in BOOLEAN : GenAnswers(r, ok)
  \/ \E r \in 1..MaxRuns, ok \in BOOLEAN : SendAnswers(r, ok)
  \/ AdvanceTime

Fairness ==
  /\ WF_vars(Tick)
  /\ WF_vars(FollowUpCheck)
  /\ WF_vars(AdvanceTime)
  /\ \A r \in 1..MaxRuns :
       /\ WF_vars(Dispatch(r))
       /\ WF_vars(\E ok \in BOOLEAN : GenAnswers(r, ok))
       /\ WF_vars(\E ok \in BOOLEAN : SendAnswers(r, ok))

SpecFair == InitFair /\ [][NextFair]_vars /\ Fairness

SequenceAtMax(p) ==
  /\ prospects[p].stage = "contacted"
  /\ prospects[p].automation_enabled
  /\ seqs[p].exists
  /\ ~seqs[p].is_paused
  /\ seqs[p].sequence_step = seqs[p].max_steps

\* C7: a contacted prospect with automation on whose unpaused sequence has
\* reached sequence_step = max_steps is eventually moved to stage lost.
C7_AtMaxEventuallyLost ==
  \A p \in Prospects : SequenceAtMax(p) ~> (prospects[p].stage = "lost")

\* Task i is in the queue and its time has come.
TaskDue(i) == i <= Len(tasks) /\ IsDue(tasks[i], now)

TaskFinished(i) == i <= Len(tasks) /\ tasks[i].status \in {"completed", "failed"}

\* C19: every task whose time has come is eventually completed or failed,
\* and no task is handed to agent.execute more than three times.
C19_DueTasksFinishWithinThree ==
  /\ \A i \in 1..FairTasks : TaskDue(i) ~> TaskFinished(i)
  /\ [](\A i \in 1..Len(tasks) : tasks[i].n_exec <= MaxAttempts)

-----------------------------------------------------------------------------
(* Tasks queued for a later time.  queueTask stores scheduledFor as it is  *)
(* given: in SQLite's own format, or as Date.toISOString() writes it (the  *)
(* format the agents use for next_send_at).  The tasks are follow-ups for  *)
(* a new prospect, which execute returns from at once.                     *)

DueTasks == 2

ScheduleTexts(t) == {SqlText(t), IsoText(t)}

InitDue == FreshStart /\ now = 0 /\ cap = Caps(DueTasks, 0, 0)

\* queueTask with a scheduledFor later than now.
EnqueueLater(p) ==
  \E t \in (now + 1)..MaxTime :
    \E scheduledFor \in ScheduleTexts(t) : Enqueue("followup", p, EmptyPayload, scheduledFor)

NextDue ==
  \/ \E p \in Prospects : Enqueue("followup", p, EmptyPayload, NoTime)
  \/ \E p \in Prospects : EnqueueLater(p)
  \/ Tick
  \/ \E r \in 1..MaxRuns : Dispatch(r)
  \/ AdvanceTime

SpecDue == InitDue /\ [][NextDue]_vars

\* The rows a tick firing now would drain.
DrainedNow ==
  LET snap == getPendingTasks(S, now, DefaultLimit)
  IN {snap[i].id : i \in 1..Len(snap)}

\* C10: a pending task queued for a time is drained by a tick exactly when
\* that time has come: not by a tick before it, and by the first tick at or
\* after it.
C10_DrainedWhenTimeHasCome ==
  \A i \in 1..Len(tasks) :
    (tasks[i].status = "pending" /\ tasks[i].scheduled_for # NoTime)
    => ((i \in DrainedNow) <=> (tasks[i].scheduled_for.at <= now))

-----------------------------------------------------------------------------
(* A task whose agent_type has no registered agent, queued next to replies *)
(* for the classifier, under the cron job and the manual route.            *)

UnknownTasks == 2
UnknownNotifications == 1

InitUnknown == FreshStart /\ cap = Caps(UnknownTasks, 0, UnknownNotifications)

NextUnknown ==
  \/ \E p \in Prospects : Enqueue("enrichment", p, EmptyPayload, NoTime)
  \/ \E p \in Prospects, hasText \in BOOLEAN : InboundReply(p, hasText)
  \/ Tick
  \/ ProcessNow
  \/ \E r \in 1..MaxRuns : Dispatch(r)
  \/ \E r \in 1..MaxRuns, answer \in Classifications \cup {"throw"} : ClassifierAnswers(r, answer)

SpecUnknown == InitUnknown /\ [][NextUnknown]_vars

\* C11: a task of an unregistered agent type is pending with attempts 0 or
\* failed with attempts 1 and the error naming the type; it is never handed
\* to processTask once it has failed.
C11_UnknownAgentFailsOnce ==
  /\ \A i \in 1..Len(tasks) :
       tasks[i].agent_type \notin RegisteredAgents
       => \/ tasks[i].status = "pending" /\ tasks[i].attempts = 0
          \/ tasks[i].status = "failed" /\ tasks[i].attempts = 1
                                        /\ tasks[i].error = "no_agent"
  /\ \A i \in 1..Len(ev) :
       (ev[i].k = "dispatch" /\ ev[i].by \notin RegisteredAgents)
       => ev[i].from = "pending"

-----------------------------------------------------------------------------
(* Replies from a contacted prospect whose follow-up sequence is running:  *)
(* the inbound webhook queues them for the classifier, the cron job and    *)
(* the manual route drain the queue, the classifier answers; the operator  *)
(* moves the prospect on the board.                                        *)

ReplyTasks == 2
ReplyNotifications == 2

\* The stages the operator sets by hand in this environment.
OperatorStages == {"proposal_sent"}

InitReply ==
  /\ cap = Caps(ReplyTasks, 1, ReplyNotifications)
  /\ now = 0
  /\ \E p \in Prospects : ContactedStart(p, 0, SeededDays)

NextReply ==
  \/ \E p \in Prospects, hasText \in BOOLEAN : InboundReply(p, hasText)
  \/ Tick
  \/ ProcessNow
  \/ \E r \in 1..MaxRuns : Dispatch(r)
  \/ \E r \in 1..MaxRuns, answer \in Classifications \cup {"throw"} : ClassifierAnswers(r, answer)
  \/ \E p \in Prospects, stage \in OperatorStages : PatchStage(p, stage)

SpecReply == InitReply /\ [][NextReply]_vars

\* The step in which the classifier's answer `c` reaches run r: the rest of
\* ResponseAgent.execute runs and the task is completed with that result.
Classified(r, c) ==
  /\ runs[r].pc = "classify"
  /\ runs'[r].pc # "classify"
  /\ tasks'[runs[r].snap[runs[r].idx].id].result = c

\* C13: when the classifier's answer is MEETING_REQUEST, the execution leaves
\* the prospect in stage meeting_scheduled with automation off, a
\* meeting_request notification added and the follow-up sequence paused.
C13_MeetingRequestEffects ==
  [][\A r \in 1..MaxRuns :
       Classified(r, "MEETING_REQUEST") =>
         LET p == NextTask(r).prospect_id
         IN /\ prospects'[p].stage = "meeting_scheduled"
            /\ ~prospects'[p].automation_enabled
            /\ notifications' = Append(notifications, NotificationRow("meeting_request", p))
            /\ seqs'[p].exists /\ seqs'[p].is_paused]_vars

-----------------------------------------------------------------------------
(* Replies and e-mail tasks for the same prospect: a contacted prospect    *)
(* replies while follow-ups are triggered; the operator moves the prospect *)
(* on the board.                                                           *)

LostTasks == 2
LostCampaigns == 2
LostNotifications == 2

InitLost ==
  /\ cap = Caps(LostTasks, LostCampaigns, LostNotifications)
  /\ now = 0
  /\ \E p \in Prospects : ContactedStart(p, 0, SeededDays)

NextLost ==
  \/ \E p \in Prospects : InboundReply(p, TRUE)
  \/ \E p \in Prospects, a \in Mailers : Trigger(a, p, EmptyPayload)
  \/ Tick
  \/ \E r \in 1..MaxRuns : Dispatch(r)
  \/ \E r \in 1..MaxRuns, ok \in BOOLEAN : GenAnswers(r, ok)
  \/ \E r \in 1..MaxRuns, ok \in BOOLEAN : SendAnswers(r, ok)
  \/ \E r \in 1..MaxRuns, answer \in Classifications \cup {"throw"} : ClassifierAnswers(r, answer)
  \/ \E p \in Prospects, stage \in OperatorStages : PatchStage(p, stage)

SpecLost == InitLost /\ [][NextLost]_vars

\* A reply of prospect p was processed with the answer NOT_INTERESTED.
NotInterestedProcessed(p) ==
  \E i \in 1..Len(tasks) :
    /\ tasks[i].agent_type = "response_classifier"
    /\ tasks[i].prospect_id = p
    /\ tasks[i].result = "NOT_INTERESTED"

\* C14: when the classifier's answer is NOT_INTERESTED, the execution leaves
\* the prospect in stage lost with automation off and the sequence paused;
\* and an Outreach or FollowUp task handed to its agent after that ends at
\* once, creating no campaign and sending nothing.
C14_NotInterestedStopsOutreach ==
  [][\A r \in 1..MaxRuns :
       /\ Classified(r, "NOT_INTERESTED") =>
            LET p == NextTask(r).prospect_id
            IN /\ prospects'[p].stage = "lost"
               /\ ~prospects'[p].automation_enabled
               /\ seqs'[p].exists /\ seqs'[p].is_paused
       /\ ( /\ active = r
            /\ runs[r].pc = "loop"
            /\ NextTask(r).agent_type \in Mailers
            /\ NotInterestedProcessed(NextTask(r).prospect_id) )
          => /\ runs'[r].pc \notin Awaits
             /\ campaigns' = campaigns
             /\ \A i \in 1..Len(ev') : ev'[i].k \notin {"campaign", "send", "sent"}]_vars

-----------------------------------------------------------------------------
(* A backlog longer than the batch limit, found at start-up: follow-up     *)
(* tasks for a new prospect (execute returns at once), one reply for the   *)
(* classifier among them (execute awaits), one task queued for later.      *)
(* More tasks are queued, the cron job drains, time passes.                *)

LimitTasks == 11

Backlog(n, k, j, p) ==
  [i \in 1..n |->
     IF i = k THEN TaskRow("response_classifier", p, ReplyPayload, NoTime)
     ELSE IF i = j THEN TaskRow("followup", p, EmptyPayload, SqlText(1))
          ELSE TaskRow("followup", p, EmptyPayload, NoTime)]

InitLimit ==
  /\ cap = Caps(LimitTasks, 0, 1)
  /\ \E n \in {DefaultLimit, DefaultLimit + 1}, k \in {2, DefaultLimit},
        j \in {0, 1}, p \in Prospects :
       tasks = Backlog(n, k, j, p)
  /\ prospects = [p \in Prospects |-> NewProspect]
  /\ seqs = [p \in Prospects |-> NoSequence]
  /\ campaigns = <<>>
  /\ notifications = <<>>
  /\ config = DefaultConfig
  /\ now = 0
  /\ runs = [r \in 1..MaxRuns |-> FreeRun]
  /\ active = 0
  /\ ev = <<>>

NextLimit ==
  \/ \E p \in Prospects : Enqueue("followup", p, EmptyPayload, NoTime)
  \/ Tick
  \/ \E r \in 1..MaxRuns : Dispatch(r)
  \/ \E r \in 1..MaxRuns, answer \in Classifications \cup {"throw"} : ClassifierAnswers(r, answer)
  \/ AdvanceTime

SpecLimit == InitLimit /\ [][NextLimit]_vars

\* The ids of the rows a call of processPendingTasks holds.
BatchIds(snap) == {snap[i].id : i \in 1..Len(snap)}

-----------------------------------------------------------------------------
(* Tasks an agent queues while it runs (the stage_manager task of an       *)
(* INTERESTED reply), in the queue of SpecQueue.                           *)

\* C21: the list a call of processPendingTasks works through is the one it
\* read at its start: a task queued by an execution of that call is not in
\* it, the list never changes, and the call hands nothing to processTask
\* that is not in it.
C21_NestedEnqueueWaitsForLaterCall ==
  [][\A r \in 1..MaxRuns :
       /\ (runs[r].pc # "free" /\ Len(tasks') > Len(tasks))
          => \A id \in (Len(tasks) + 1)..Len(tasks') : id \notin BatchIds(runs[r].snap)
       /\ (runs[r].pc # "free" /\ runs'[r].pc # "free") => runs'[r].snap = runs[r].snap
       /\ active = r
          => \A i \in 1..Len(ev') :
               ev'[i].k = "dispatch" => ev'[i].task \in BatchIds(runs[r].snap)]_vars

\* The stage_manager task queued by the classifier was executed, once, by a
\* call that began after the one that queued it had returned.
C21_StageTaskRanInLaterCall ==
  \E i \in 1..Len(tasks) :
    /\ tasks[i].agent_type = "stage_manager"
    /\ tasks[i].status = "completed"
    /\ tasks[i].n_exec = 1
    /\ \A j \in 1..Len(tasks) : j # i => tasks[j].result = "INTERESTED"

-----------------------------------------------------------------------------
(* The pause flag of the follow-up sequence while replies are processed    *)
(* (SpecReply: agents, cron job and board moves; no route that re-enables  *)
(* a sequence).                                                            *)

\* C22: a follow-up sequence that is paused stays paused.
C22_PausedStaysPaused ==
  [][\A p \in Prospects :
       (seqs[p].exists /\ seqs[p].is_paused) => (seqs'[p].exists /\ seqs'[p].is_paused)]_vars

-----------------------------------------------------------------------------
(* Replies to a contacted prospect whose sequence is running, arriving     *)
(* through the inbound webhook or typed in by the operator (POST           *)
(* /agents/trigger/classify); the cron job drains what the classifier      *)
(* queues.                                                                 *)

ClassifyTasks == 2
ClassifyNotifications == 1

InitClassify ==
  /\ cap = Caps(ClassifyTasks, 1, ClassifyNotifications)
  /\ now = 0
  /\ \E p \in Prospects : ContactedStart(p, 0, SeededDays)

NextClassify ==
  \/ \E p \in Prospects : InboundReply(p, TRUE)
  \/ \E p \in Prospects : Trigger("response_classifier", p, ReplyPayload)
  \/ Tick
  \/ \E r \in 1..MaxRuns : Dispatch(r)
  \/ \E r \in 1..MaxRuns, answer \in Classifications \cup {"throw"} : ClassifierAnswers(r, answer)

SpecClassify == InitClassify /\ [][NextClassify]_vars

\* The classifications after which a human is to take over.
HandOver == {"INTERESTED", "QUESTION", "MEETING_REQUEST", "NOT_INTERESTED", "UNCLEAR"}

\* No call of processPendingTasks is under way and no task is waiting.
Quiet ==
  /\ \A r \in 1..MaxRuns : runs[r].pc = "free"
  /\ \A i \in 1..Len(tasks) : tasks[i].status \in {"completed", "failed"}

\* The replies of prospect p that the classifier has processed.
Processed(p) ==
  {i \in 1..Len(tasks) :
     /\ tasks[i].agent_type = "response_classifier"
     /\ tasks[i].prospect_id = p
     /\ tasks[i].status = "completed"}

\* C23: once every reply of a prospect was processed with a classification
\* that hands over to a human, and every task queued meanwhile has run, the
\* prospect's follow-up sequence is paused.
C23_HandOverPausesSequence ==
  \A p \in Prospects :
    ( /\ Quiet
      /\ Processed(p) # {}
      /\ \A i \in Processed(p) : tasks[i].result \in HandOver
      /\ seqs[p].exists )
    => seqs[p].is_paused

-----------------------------------------------------------------------------
(* transitionTo between the seven stages for a prospect with or without a  *)
(* follow-up sequence, running or paused, automation on or off.            *)

EffectsNotifications == 1

RunningSequence ==
  [exists |-> TRUE, sequence_step |-> 1, max_steps |-> maxStepsOf(SeededDays),
   is_paused |-> FALSE, next_send_at |-> IsoText(0)]

InitEffects ==
  /\ cap = Caps(1, 0, EffectsNotifications)
  /\ \E from \in KnownStages, to \in KnownStages, p \in Prospects, auto \in BOOLEAN,
        seq \in {NoSequence, RunningSequence, [RunningSequence EXCEPT !.is_paused = TRUE]} :
       /\ tasks = <<TaskRow("stage_manager", p, [EmptyPayload EXCEPT !.suggestedStage = to], NoTime)>>
       /\ prospects = [q \in Prospects |->
                         [NewProspect EXCEPT !.stage = from, !.automation_enabled = auto]]
       /\ seqs = [q \in Prospects |-> seq]
  /\ campaigns = <<>>
  /\ notifications = <<>>
  /\ config = DefaultConfig
  /\ now = 0
  /\ runs = [r \in 1..MaxRuns |-> FreeRun]
  /\ active = 0
  /\ ev = <<>>

NextEffects ==
  \/ Tick
  \/ \E r \in 1..MaxRuns : Dispatch(r)

SpecEffects == InitEffects /\ [][NextEffects]_vars

\* C24: a transitionTo that succeeds leaves, in the same step as the stage
\* write, the effect of the stage entered: contacted - a sequence exists, one
\* that existed is as it was; responded - the sequence is paused;
\* meeting_scheduled - a notification is added and automation is off; won - a
\* notification is added; lost - automation is off and the sequence paused.
C24_StageEffectsComeWithTheWrite ==
  [][\A r \in 1..MaxRuns :
       LET id == runs[r].snap[runs[r].idx].id
           p == tasks[id].prospect_id
           to == tasks[id].payload.suggestedStage
           note(type) == notifications' = Append(notifications, NotificationRow(type, p))
       IN (TransitionDue(r) /\ tasks'[id].result = "transition_ok")
          => /\ prospects'[p].stage = to
             /\ to = "contacted" => /\ seqs'[p].exists
                                    /\ seqs[p].exists => seqs'[p] = seqs[p]
             /\ to = "responded" => (seqs[p].exists => seqs'[p].is_paused)
             /\ to = "meeting_scheduled" => (note("meeting_scheduled")
                                             /\ ~prospects'[p].automation_enabled)
             /\ to = "won" => note("deal_won")
             /\ to = "lost" => /\ ~prospects'[p].automation_enabled
                               /\ seqs[p].exists => seqs'[p].is_paused]_vars

\* A prospect with automation on and a sequence was moved to lost.
C24_MovedToLostWithEffects ==
  \E i \in 1..Len(ev), p \in Prospects :
    /\ ev[i].k = "stage" /\ ev[i].by = "stage_manager" /\ ev[i].to = "lost" /\ ev[i].auto
    /\ prospects[p].stage = "lost"
    /\ ~prospects[p].automation_enabled
    /\ seqs[p].exists /\ seqs[p].is_paused /\ seqs[p].sequence_step = 1

-----------------------------------------------------------------------------
(* The follow-up that gives up (SpecAgents).                               *)

\* C25: a follow-up execution that finds sequence_step >= max_steps leaves
\* the prospect in stage lost with automation off and the sequence paused.
C25_GivingUpAppliesLostEffects ==
  [][\A r \in 1..MaxRuns :
       FollowUpAtMax(r) =>
         LET p == NextTask(r).prospect_id
         IN /\ prospects'[p].stage = "lost"
            /\ ~prospects'[p].automation_enabled
            /\ seqs'[p].is_paused]_vars

-----------------------------------------------------------------------------
(* The stage while replies are classified (SpecReply).                     *)

\* C26: the step in which a classified reply is processed leaves the stage
\* as it was, moves it forward in stageOrder, or moves it to lost.
C26_RepliesNeverMoveBackward ==
  [][\A r \in 1..MaxRuns :
       (runs[r].pc = "classify" /\ runs'[r].pc # "classify")
       => LET p == NextTask(r).prospect_id
              before == prospects[p].stage
              after == prospects'[p].stage
          IN \/ after = before
             \/ after = "lost"
             \/ IndexOf(after) > IndexOf(before)]_vars

-----------------------------------------------------------------------------
(* The follow-up scan under the cron jobs (SpecFair).                      *)

\* The sequence of prospect p is running, its time has come, it has steps
\* left, and the prospect is contacted with automation on.
SequenceDue(p) ==
  /\ seqs[p].exists
  /\ ~seqs[p].is_paused
  /\ seqs[p].next_send_at.at <= now
  /\ seqs[p].sequence_step < seqs[p].max_steps
  /\ prospects[p].automation_enabled
  /\ prospects[p].stage = "contacted"

\* C27: a follow-up scan made now queues a task for exactly the prospects
\* whose sequence is due.
C27_ScanQueuesExactlyTheDue ==
  \A p \in Prospects : (p \in getDueFollowUps(S, now)) <=> SequenceDue(p)

-----------------------------------------------------------------------------
(* The inbound webhook: replies from a prospect in any of the seven        *)
(* stages, with or without a sequence, while the cron job drains the queue *)
(* and the classifier has not answered yet.                                *)

IngestTasks == 2

InitIngest ==
  /\ cap = Caps(IngestTasks, 0, 0)
  /\ tasks = <<>>
  /\ \E stage \in KnownStages, auto \in BOOLEAN,
        seq \in {NoSequence, RunningSequence, [RunningSequence EXCEPT !.is_paused = TRUE]} :
       /\ prospects = [q \in Prospects |->
                         [NewProspect EXCEPT !.stage = stage, !.automation_enabled = auto]]
       /\ seqs = [q \in Prospects |-> seq]
  /\ campaigns = <<>>
  /\ notifications = <<>>
  /\ config = DefaultConfig
  /\ now = 0
  /\ runs = [r \in 1..MaxRuns |-> FreeRun]
  /\ active = 0
  /\ ev = <<>>

NextIngest ==
  \/ \E p \in Prospects, hasText \in BOOLEAN : InboundReply(p, hasText)
  \/ Tick
  \/ \E r \in 1..MaxRuns : Dispatch(r)

SpecIngest == InitIngest /\ [][NextIngest]_vars

\* The step queued a response_classifier task from outside a call of
\* processPendingTasks: a reply came in through the webhook.
ReplyIngested ==
  /\ active = 0
  /\ Len(tasks') = Len(tasks) + 1
  /\ tasks'[Len(tasks')].agent_type = "response_classifier"

\* C28: a reply that comes in adds one pending response_classifier task and
\* nothing else to the queue, pauses the prospect's sequence, and sets the
\* stage to responded exactly when it was new or contacted; any other stage
\* stays.
C28_ReplyIngestion ==
  [][ReplyIngested =>
       LET new == tasks'[Len(tasks')]
           p == new.prospect_id
       IN /\ SubSeq(tasks', 1, Len(tasks)) = tasks
          /\ new.status = "pending" /\ new.attempts = 0 /\ new.scheduled_for = NoTime
          /\ seqs[p].exists => seqs'[p] = [seqs[p] EXCEPT !.is_paused = TRUE]
          /\ prospects'[p] = [prospects[p] EXCEPT !.stage =
                                IF @ \in {"new", "contacted"} THEN "responded" ELSE @]]_vars

\* A reply from a prospect in proposal_sent was queued and left the stage.
C28_ReplyLeavesLaterStage ==
  /\ Len(tasks) = 1
  /\ tasks[1].agent_type = "response_classifier"
  /\ tasks[1].status = "pending"
  /\ tasks[1].payload.responseText
  /\ prospects[tasks[1].prospect_id].stage = "proposal_sent"
  /\ seqs[tasks[1].prospect_id].is_paused
  /\ seqs[tasks[1].prospect_id].sequence_step = 1

-----------------------------------------------------------------------------
(* Outcomes of an execution as processTask records them (SpecAgents).      *)

\* C29: when the text generation of an execution throws because the
\* provider is not configured, the task is failed by that dispatch and is
\* not pending again.
C29_ProviderErrorFailsAtOnce ==
  [][\A r \in 1..MaxRuns :
       LET id == runs[r].snap[runs[r].idx].id
       IN (runs[r].pc = "gen" /\ runs'[r].pc # "gen" /\ tasks'[id].error = "provider_error")
          => tasks'[id].status = "failed"]_vars

-----------------------------------------------------------------------------
(* Skips and drafts in the queue of SpecSeq.                               *)

\* What execute returns when its preconditions are unmet (a skip) or when
\* the message could not be handed over (a draft).
SkipOrDraft ==
  {"skipped_automation", "skipped_global", "skipped_has_campaigns", "skipped_stage",
   "skipped_no_sequence", "skipped_paused", "draft_no_email", "draft_not_ready"}

\* C30: a task whose execution ended in a skip or a draft is completed with
\* that outcome as its result, and stays completed: it is not pending,
\* processing or failed afterwards.
C30_SkipsAndDraftsStayCompleted ==
  [][\A i \in 1..Len(tasks) :
       /\ tasks'[i].result \in SkipOrDraft => tasks'[i].status = "completed"
       /\ (tasks[i].status = "completed" /\ tasks[i].result \in SkipOrDraft)
          => tasks'[i].status = "completed"]_vars

-----------------------------------------------------------------------------
(* Replies while the operator switches auto_classify off and on (PUT       *)
(* /agents/config): a contacted prospect with a running sequence replies,  *)
(* the cron job drains the queue, the classifier answers.                  *)

ReviewTasks == 2
ReviewNotifications == 1

InitReview ==
  /\ cap = Caps(ReviewTasks, 1, ReviewNotifications)
  /\ now = 0
  /\ \E p \in Prospects : ContactedStart(p, 0, SeededDays)

NextReview ==
  \/ \E p \in Prospects : InboundReply(p, TRUE)
  \/ \E value \in {"true", "false"} : SetConfig("auto_classify", value)
  \/ Tick
  \/ \E r \in 1..MaxRuns : Dispatch(r)
  \/ \E r \in 1..MaxRuns, answer \in Classifications \cup {"throw"} : ClassifierAnswers(r, answer)

SpecReview == InitReview /\ [][NextReview]_vars

\* Run r is about to execute a reply that carries a text while auto_classify
\* is not 'true'.
ReviewDue(r) ==
  /\ active = r
  /\ runs[r].pc = "loop"
  /\ NextTask(r).agent_type = "response_classifier"
  /\ NextTask(r).payload.responseText
  /\ config.auto_classify # "true"

-----------------------------------------------------------------------------
(* The manual trigger behind a backlog: follow-up tasks for a prospect     *)
(* that is still new (execute returns at once) are waiting when the        *)
(* operator triggers outreach by hand; the cron job runs as well.          *)

BacklogTasks == 11
BacklogCampaigns == 1

InitBacklog ==
  /\ cap = Caps(BacklogTasks, BacklogCampaigns, 0)
  /\ \E n \in {DefaultLimit - 1, DefaultLimit}, p \in Prospects : tasks = Backlog(n, 0, 0, p)
  /\ prospects = [p \in Prospects |-> NewProspect]
  /\ seqs = [p \in Prospects |-> NoSequence]
  /\ campaigns = <<>>
  /\ notifications = <<>>
  /\ config = DefaultConfig
  /\ now = 0
  /\ runs = [r \in 1..MaxRuns |-> FreeRun]
  /\ active = 0
  /\ ev = <<>>

NextBacklog ==
  \/ \E p \in Prospects : Trigger("outreach", p, EmptyPayload)
  \/ Tick
  \/ \E r \in 1..MaxRuns : Dispatch(r)
  \/ \E r \in 1..MaxRuns, ok \in BOOLEAN : GenAnswers(r, ok)
  \/ \E r \in 1..MaxRuns, ok \in BOOLEAN : SendAnswers(r, ok)

SpecBacklog == InitBacklog /\ [][NextBacklog]_vars

\* Every call of processPendingTasks has returned.
AllCallsReturned == \A r \in 1..MaxRuns : runs[r].pc = "free"

\* C32: once the call made by a manual trigger has returned, the task the
\* trigger queued has been handed to its agent.  (Here the outreach tasks
\* are the triggered ones.)
C32_TriggeredTaskRanInItsCall ==
  AllCallsReturned =>
    \A i \in 1..Len(tasks) : tasks[i].agent_type = "outreach" => tasks[i].n_exec >= 1

-----------------------------------------------------------------------------
(* Retention.  The server comes up on a database a month old: a contacted  *)
(* prospect whose outreach task finished then, and a notification about    *)
(* another prospect; each was written 31 days ago, or 29.  The             *)
(* scheduler's jobs run: Process Agent Tasks, Follow-up Check, Cleanup Old *)
(* Tasks (Health Check only reads).                                        *)

RetentionTasks == 2
RetentionCampaigns == 2

\* datetime('now', '-30 days')
RetentionCutoff(t) == SqlText(t - RetentionDays * SlotsPerDay)

\* NotificationService.cleanup
cleanup(s, t) ==
  [s EXCEPT !.notifications =
     SelectSeq(@, LAMBDA n : TextLeq(RetentionCutoff(t), n.created_at))]

\* Scheduler job 'Cleanup Old Tasks' (daily): DELETE FROM agent_tasks for
\* the completed and failed rows stamped more than 30 days ago.
CleanupOldTasks ==
  /\ active = 0
  /\ Commit([S EXCEPT !.tasks =
              [i \in 1..Len(tasks) |->
                 IF /\ tasks[i].status \in {"completed", "failed"}
                    /\ ~TextLeq(RetentionCutoff(now), tasks[i].completed_at)
                 THEN [tasks[i] EXCEPT !.status = "deleted"]
                 ELSE tasks[i]]])
  /\ UNCHANGED <<now, runs, active>>

\* A prospect of the database that takes no part here.
OtherProspect == 2

InitRetention ==
  /\ cap = Caps(RetentionTasks, RetentionCampaigns, 1)
  /\ now = AddDays(0, RetentionDays + 1)
  /\ \E p \in Prospects, done \in {SqlText(0), SqlText(AddDays(0, 2))},
        made \in {SqlText(0), SqlText(AddDays(0, 2))} :
       /\ tasks = <<[TaskRow("outreach", p, EmptyPayload, NoTime) EXCEPT
                       !.status = "completed", !.result = "sent", !.completed_at = done,
                       !.attempts = 2, !.n_exec = 1]>>
       /\ prospects = [q \in Prospects |-> [NewProspect EXCEPT !.stage = "contacted"]]
       /\ seqs = [q \in Prospects |->
                    [exists |-> TRUE, sequence_step |-> 0, max_steps |-> maxStepsOf(SeededDays),
                     is_paused |-> FALSE, next_send_at |-> IsoText(AddDays(0, daysBetweenOf(SeededDays)))]]
       /\ campaigns = SentCampaigns(p, 0)
       /\ notifications = <<[type |-> "deal_won", prospect_id |-> OtherProspect, created_at |-> made]>>
  /\ config = DefaultConfig
  /\ runs = [r \in 1..MaxRuns |-> FreeRun]
  /\ active = 0
  /\ ev = <<>>

NextRetention ==
  \/ Tick
  \/ FollowUpCheck
  \/ CleanupOldTasks
  \/ \E r \in 1..MaxRuns : Dispatch(r)
  \/ \E r \in 1..MaxRuns, ok \in BOOLEAN : GenAnswers(r, ok)
  \/ \E r \in 1..MaxRuns, ok \in BOOLEAN : SendAnswers(r, ok)

FairnessRetention ==
  /\ WF_vars(Tick)
  /\ WF_vars(FollowUpCheck)
  /\ WF_vars(CleanupOldTasks)
  /\ \A r \in 1..MaxRuns :
       /\ WF_vars(Dispatch(r))
       /\ WF_vars(\E ok \in BOOLEAN : GenAnswers(r, ok))
       /\ WF_vars(\E ok \in BOOLEAN : SendAnswers(r, ok))

SpecRetention == InitRetention /\ [][NextRetention]_vars /\ FairnessRetention

\* A notification older than the retention window is in the table.
ExpiredNotificationKept == cleanup(S, now).notifications # notifications

\* C33: under the scheduler's jobs, a notification older than 30 days does
\* not stay: whenever one is in the table, later none is.
C33_ExpiredNotificationsGo == ExpiredNotificationKept ~> ~ExpiredNotificationKept

-----------------------------------------------------------------------------
(* The sequence update of a follow-up (SpecSeq).                           *)

\* The day offset for step `step` of the schedule `days`: the entry at that
\* index, or the last entry when the schedule is shorter.
OffsetFor(days, step) == IF step < Len(days) THEN days[step + 1] ELSE days[Len(days)]

\* C34: a step of a follow-up execution that ends in a delivery raises
\* sequence_step by one and sets next_send_at to now plus the offset for the
\* new step; any other step of a follow-up execution leaves sequence_step
\* and next_send_at as they were.
C34_SendAdvancesSequenceByOne ==
  [][\A r \in 1..MaxRuns :
       (runs[r].pc # "free" /\ runs'[r] # runs[r] /\ NextTask(r).agent_type = "followup")
       => LET id == runs[r].snap[runs[r].idx].id
              p == tasks[id].prospect_id
              delivered == runs[r].pc = "send" /\ tasks'[id].result = "sent"
          IN IF delivered
             THEN /\ seqs'[p].sequence_step = seqs[p].sequence_step + 1
                  /\ seqs'[p].next_send_at =
                       IsoText(AddDays(now, OffsetFor(config.follow_up_days, seqs'[p].sequence_step)))
             ELSE /\ seqs'[p].sequence_step = seqs[p].sequence_step
                  /\ seqs'[p].next_send_at = seqs[p].next_send_at]_vars

-----------------------------------------------------------------------------
(* The attempts counter of a task that succeeds (SpecEffects: stage tasks, *)
(* one dispatch each).                                                     *)

\* C35: a completed task has as many attempts as dispatches of it failed: 0
\* when it succeeded on its first dispatch.
C35_SuccessLeavesAttempts ==
  \A i \in 1..Len(tasks) :
    tasks[i].status = "completed" => tasks[i].attempts = tasks[i].n_throw

-----------------------------------------------------------------------------
(* Follow-ups that cannot be delivered: a contacted prospect whose         *)
(* sequence is due and who has no e-mail address, or the delivery service  *)
(* is not configured; only the cron jobs act.  No execution reaches        *)
(* emailService.send.                                                      *)

DraftTasks == 2
DraftCampaigns == 3

InitDraft ==
  /\ cap = Caps(DraftTasks, DraftCampaigns, 0)
  /\ now = SlotsPerDay
  /\ tasks = <<>>
  /\ \E p \in Prospects, hasEmail \in BOOLEAN, ready \in BOOLEAN :
       /\ ~(hasEmail /\ ready)
       /\ prospects = [q \in Prospects |->
                         [NewProspect EXCEPT !.stage = "contacted", !.email = hasEmail]]
       /\ campaigns = SentCampaigns(p, 0)
       /\ config = [DefaultConfig EXCEPT !.follow_up_days = <<7>>, !.email_ready = ready]
  /\ seqs = [q \in Prospects |->
               [exists |-> TRUE, sequence_step |-> 0, max_steps |-> maxStepsOf(<<7>>),
                is_paused |-> FALSE, next_send_at |-> IsoText(0)]]
  /\ notifications = <<>>
  /\ runs = [r \in 1..MaxRuns |-> FreeRun]
  /\ active = 0
  /\ ev = <<>>

NextDraft ==
  \/ FollowUpCheck
  \/ Tick
  \/ \E r \in 1..MaxRuns : Dispatch(r)
  \/ \E r \in 1..MaxRuns, ok \in BOOLEAN : GenAnswers(r, ok)

SpecDraft == InitDraft /\ [][NextDraft]_vars

\* No message can be handed over for prospect p.
Undeliverable(p) == ~prospects[p].email \/ ~config.email_ready

\* C36: while no message can be delivered to a contacted prospect with a
\* due sequence, its campaigns number at most 1 + max_steps.
C36_UndeliverableCampaignsBounded ==
  \A p \in Prospects :
    (Undeliverable(p) /\ prospects[p].stage = "contacted" /\ seqs[p].exists)
    => campaignCount(S, p) <= 1 + seqs[p].max_steps

-----------------------------------------------------------------------------
(* Follow-up scans that run ahead of the drain: a contacted prospect with  *)
(* a due sequence of three steps; the cron jobs scan and drain, the        *)
(* collaborators answer.                                                   *)

ScanTasks == 2
ScanCampaigns == 3

InitScan ==
  /\ cap = Caps(ScanTasks, ScanCampaigns, 0)
  /\ now = SlotsPerDay
  /\ \E p \in Prospects : ContactedStart(p, 0, SeededDays)

NextScan ==
  \/ FollowUpCheck
  \/ Tick
  \/ \E r \in 1..MaxRuns : Dispatch(r)
  \/ \E r \in 1..MaxRuns, ok \in BOOLEAN : GenAnswers(r, ok)
  \/ \E r \in 1..MaxRuns, ok \in BOOLEAN : SendAnswers(r, ok)

SpecScan == InitScan /\ [][NextScan]_vars

\* C37: a follow-up execution hands a message to the e-mail service only
\* when the next_send_at of the prospect's sequence has arrived.
C37_FollowUpSendsOnlyWhenDue ==
  \A i \in 1..Len(ev) :
    (ev[i].k = "send" /\ ev[i].by = "followup")
    => seqs[ev[i].p].next_send_at.at <= now

-----------------------------------------------------------------------------
(* An out-of-office reply.  A contacted prospect with a running sequence   *)
(* replies; the cron jobs scan and drain, the classifier and the other     *)
(* collaborators answer, and the days of the absence pass.                 *)

AwayTasks == 2
AwayCampaigns == 2
AwayNotifications == 1

\* The days of the absence pass, and one more: the clock moves past the
\* day the sequence was rescheduled to.
DaysPass ==
  /\ active = 0
  /\ now <= MaxTime
  /\ now' = AddDays(now, OutOfOfficeDays + 1)
  /\ Commit(S)
  /\ UNCHANGED <<runs, active>>

InitAway ==
  /\ cap = Caps(AwayTasks, AwayCampaigns, AwayNotifications)
  /\ now = 0
  /\ \E p \in Prospects : ContactedStart(p, 0, SeededDays)

NextAway ==
  \/ \E p \in Prospects : InboundReply(p, TRUE)
  \/ Tick
  \/ FollowUpCheck
  \/ \E r \in 1..MaxRuns : Dispatch(r)
  \/ \E r \in 1..MaxRuns, answer \in Classifications \cup {"throw"} : ClassifierAnswers(r, answer)
  \/ \E r \in 1..MaxRuns, ok \in BOOLEAN : GenAnswers(r, ok)
  \/ \E r \in 1..MaxRuns, ok \in BOOLEAN : SendAnswers(r, ok)
  \/ DaysPass

FairnessAway ==
  /\ WF_vars(Tick)
  /\ WF_vars(FollowUpCheck)
  /\ \A r \in 1..MaxRuns :
       /\ WF_vars(Dispatch(r))
       /\ WF_vars(\E answer \in Classifications \cup {"throw"} : ClassifierAnswers(r, answer))
       /\ WF_vars(\E ok \in BOOLEAN : GenAnswers(r, ok))
       /\ WF_vars(\E ok \in BOOLEAN : SendAnswers(r, ok))

SpecAway == InitAway /\ [][NextAway]_vars /\ FairnessAway

\* The reply tasks of prospect p.
Replies(p) ==
  {i \in 1..Len(tasks) :
     tasks[i].agent_type = "response_classifier" /\ tasks[i].prospect_id = p}

\* Prospect p has replied, and every reply was classified OUT_OF_OFFICE.
OnlyOutOfOffice(p) ==
  /\ Replies(p) # {}
  /\ \A i \in Replies(p) : tasks[i].status = "completed" /\ tasks[i].result = "OUT_OF_OFFICE"

\* The day the sequence of p was rescheduled to has passed, and the sequence
\* is running with steps left and automation on.
RescheduledDayPassed(p) ==
  /\ seqs[p].exists
  /\ ~seqs[p].is_paused
  /\ seqs[p].sequence_step < seqs[p].max_steps
  /\ prospects[p].automation_enabled
  /\ DateOf(seqs[p].next_send_at.at) < DateOf(now)

\* A follow-up task was queued for p after its replies.
FollowUpQueuedAfterReply(p) ==
  \E i \in 1..Len(tasks) :
    /\ tasks[i].agent_type = "followup"
    /\ tasks[i].prospect_id = p
    /\ \A j \in Replies(p) : j < i

\* C38: a contacted prospect whose replies were all classified
\* OUT_OF_OFFICE is still in stage contacted, and once the rescheduled day
\* has passed a scan queues a follow-up for it.
C38_OutOfOfficeKeepsCadence ==
  \A p \in Prospects :
    /\ [](OnlyOutOfOffice(p) => prospects[p].stage = "contacted")
    /\ (OnlyOutOfOffice(p) /\ RescheduledDayPassed(p)) ~> FollowUpQueuedAfterReply(p)

-----------------------------------------------------------------------------
(* Campaign records.  A new prospect, with or without an e-mail address,   *)
(* the delivery service configured or not; the operator triggers outreach  *)
(* (generated, or from a template as it is) and follow-ups while the cron  *)
(* job retries what failed.                                                *)

CampaignTasks == 2
CampaignCampaigns == 2

TemplatePayload == [EmptyPayload EXCEPT !.noAI = TRUE]

InitCampaign ==
  /\ cap = Caps(CampaignTasks, CampaignCampaigns, 0)
  /\ tasks = <<>>
  /\ \E hasEmail \in BOOLEAN, ready \in BOOLEAN :
       /\ prospects = [p \in Prospects |-> [NewProspect EXCEPT !.email = hasEmail]]
       /\ config = [DefaultConfig EXCEPT !.email_ready = ready]
  /\ seqs = [p \in Prospects |-> NoSequence]
  /\ campaigns = <<>>
  /\ notifications = <<>>
  /\ now = 0
  /\ runs = [r \in 1..MaxRuns |-> FreeRun]
  /\ active = 0
  /\ ev = <<>>

NextCampaign ==
  \/ \E p \in Prospects, payload \in {EmptyPayload, TemplatePayload} : Trigger("outreach", p, payload)
  \/ \E p \in Prospects : Trigger("followup", p, EmptyPayload)
  \/ Tick
  \/ \E r \in 1..MaxRuns : Dispatch(r)
  \/ \E r \in 1..MaxRuns, ok \in BOOLEAN : GenAnswers(r, ok)
  \/ \E r \in 1..MaxRuns, ok \in BOOLEAN : SendAnswers(r, ok)

SpecCampaign == InitCampaign /\ [][NextCampaign]_vars

====
